---- MODULE Spec2Model ----
(***************************************************************************)
(* Model of the field validator of src/src/lib.rs: the Validator builder   *)
(* (its configuration and candidate-value slots), its setters, and its     *)
(* evaluators.  Every evaluator takes &self and returns its outcome; the   *)
(* model records the evaluator last called in `op` and what it returned in *)
(* `out`.  `calls` is a history variable: the setter calls made so far,    *)
(* each with its argument, recorded where the order of the calls is what   *)
(* is examined.                                                            *)
(***************************************************************************)
EXTENDS Integers, Sequences, FiniteSets, TLC

VARIABLES self, op, out, calls

vars == <<self, op, out, calls>>

(***************************************************************************)
(* Option<T>, Null<T>                                                      *)
(***************************************************************************)
None == [some |-> FALSE]

Some(v) == [some |-> TRUE, v |-> v]

OptionOf(S) == {None} \cup {Some(v) : v \in S}

Undefined == [kind |-> "undefined"]

Value(v) == [kind |-> "value", value |-> v]

\* format!("{}-suffix", self.field)
Key(s, suffix) == <<s.field, suffix>>

\* i18n::get(key): a message with no argument.
i18n_get(key) == [key |-> key, args |-> <<>>]

\* i18n::new(key).set_args(..)...build(): the arguments in the order of the
\* set_args calls.
i18n_new(key, args) == [key |-> key, args |-> args]

(***************************************************************************)
(* Machine integers, scaled: i32 has I32_BITS bits, usize and i64 have     *)
(* USIZE_BITS bits (a 64-bit target), i32 being the narrower.  `as` between*)
(* integer types keeps the low bits and reinterprets them in two's         *)
(* complement.                                                             *)
(***************************************************************************)
I32_BITS == 2

USIZE_BITS == 3

I64_BITS == USIZE_BITS

Pow2(n) == 2 ^ n

USize == 0 .. (Pow2(USIZE_BITS) - 1)

I32 == (0 - Pow2(I32_BITS - 1)) .. (Pow2(I32_BITS - 1) - 1)

I64 == (0 - Pow2(I64_BITS - 1)) .. (Pow2(I64_BITS - 1) - 1)

WrapSigned(u, bits) ==
    LET m == u % Pow2(bits)
    IN  IF m >= Pow2(bits - 1) THEN m - Pow2(bits) ELSE m

\* `min as i32`, `max as i32` (usize -> i32)
as_i32(u) == WrapSigned(u, I32_BITS)

\* `min as i64`, `max as i64` (usize -> i64)
as_i64(u) == WrapSigned(u, I64_BITS)

(***************************************************************************)
(* Floats: a finite value is a point of an integer grid, or the float is   *)
(* NaN.  f64 holds every grid point; f32, the coarser type, holds the even *)
(* ones.  Every comparison with NaN is false.  `as f32` rounds a finite    *)
(* f64 to the nearest f32 and keeps NaN.                                   *)
(***************************************************************************)
F(n) == [nan |-> FALSE, v |-> n]

NaN == [nan |-> TRUE, v |-> 0]

f_lt(a, b) == ~a.nan /\ ~b.nan /\ a.v < b.v

f_gt(a, b) == ~a.nan /\ ~b.nan /\ a.v > b.v

\* `min as f32`, `max as f32` (f64 -> f32)
as_f32(x) == IF x.nan THEN NaN ELSE F(2 * ((x.v + 1) \div 2))

(***************************************************************************)
(* Strings.  A String is a sequence of chars, a char its Unicode code      *)
(* point.  String::len and String::bytes are those of the UTF-8 encoding.  *)
(***************************************************************************)
\* The UTF-8 encoding of one char (code points below 0x10000).
utf8(c) ==
    IF c < 128 THEN <<c>>
    ELSE IF c < 2048 THEN <<192 + (c \div 64), 128 + (c % 64)>>
    ELSE <<224 + (c \div 4096), 128 + ((c \div 64) % 64), 128 + (c % 64)>>

RECURSIVE bytes(_)
\* String::bytes
bytes(str) ==
    IF str = <<>> THEN <<>> ELSE utf8(Head(str)) \o bytes(Tail(str))

\* String::len: the length in bytes
str_len(str) == Len(bytes(str))

\* String::is_empty
is_empty(str) == str_len(str) = 0

is_ascii_lowercase(c) == 97 <= c /\ c <= 122

is_ascii_uppercase(c) == 65 <= c /\ c <= 90

is_ascii_digit(c) == 48 <= c /\ c <= 57

is_ascii_alphabetic(c) == is_ascii_lowercase(c) \/ is_ascii_uppercase(c)

is_ascii_alphanumeric(c) == is_ascii_alphabetic(c) \/ is_ascii_digit(c)

\* char::to_lowercase over ASCII and Latin-1: the upper-case letters A-Z and
\* U+00C0-U+00DE (but the sign U+00D7) map 32 code points up, every other
\* char of these ranges and the punctuation used here maps to itself.
char_to_lowercase(c) ==
    IF is_ascii_uppercase(c) \/ (192 <= c /\ c <= 222 /\ c # 215)
    THEN c + 32
    ELSE c

\* String::to_lowercase
to_lowercase(str) == [i \in 1 .. Len(str) |-> char_to_lowercase(str[i])]

\* \p{L} over ASCII, Latin-1 and the katakana block: the letters.
is_letter(c) ==
    \/ is_ascii_alphabetic(c)
    \/ c = 170 \/ c = 181 \/ c = 186
    \/ (192 <= c /\ c <= 255 /\ c # 215 /\ c # 247)
    \/ (12449 <= c /\ c <= 12538)

\* One char of the class [\p{L} \-・'] : a letter, U+0020, U+002D, U+30FB
\* or U+0027.
is_name_char(c) ==
    is_letter(c) \/ c = 32 \/ c = 45 \/ c = 12539 \/ c = 39

\* Regex::new(r"^[\p{L} \-・']+$").is_match(str)
name_regex_is_match(str) ==
    Len(str) >= 1 /\ \A i \in 1 .. Len(str) : is_name_char(str[i])

\* Every string of at most n chars of the alphabet A.
StringsUpTo(A, n) == UNION {[1 .. k -> A] : k \in 0 .. n}

\* const MIN, const MAX: the length limits of validate_password_strict
MIN == 8

MAX == 64

\* The string of n chars c.
Repeat(c, n) == [i \in 1 .. n |-> c]

\* Vec::contains
contains(list, x) == \E i \in 1 .. Len(list) : list[i] = x

\* list.iter().map(|value| value.to_lowercase()).collect()
map_to_lowercase(list) == [i \in 1 .. Len(list) |-> to_lowercase(list[i])]

\* Every list of at most n elements of S.
ListsUpTo(S, n) == UNION {[1 .. k -> S] : k \in 0 .. n}

(***************************************************************************)
(* base64_url::decode: URL-safe base64 without padding.  A char of the     *)
(* alphabet A-Z a-z 0-9 - _ carries six bits; four chars give three bytes, *)
(* a last group of two chars one byte and of three chars two bytes; a last *)
(* group of one char, a char outside the alphabet, and left-over bits that *)
(* are not zero are errors.                                                *)
(***************************************************************************)
\* The six-bit value of a char of the alphabet, or -1.
b64_value(c) ==
    IF 65 <= c /\ c <= 90 THEN c - 65
    ELSE IF 97 <= c /\ c <= 122 THEN c - 71
    ELSE IF 48 <= c /\ c <= 57 THEN c + 4
    ELSE IF c = 45 THEN 62
    ELSE IF c = 95 THEN 63
    ELSE 0 - 1

RECURSIVE b64_decode_values(_)
\* The bytes of a sequence of six-bit values, or an error.
b64_decode_values(v) ==
    IF Len(v) = 0 THEN [ok |-> TRUE, bytes |-> <<>>]
    ELSE IF Len(v) = 1 THEN [ok |-> FALSE, bytes |-> <<>>]
    ELSE IF Len(v) = 2
    THEN LET n == v[1] * 64 + v[2]
         IN  [ok |-> n % 16 = 0, bytes |-> <<n \div 16>>]
    ELSE IF Len(v) = 3
    THEN LET n == v[1] * 4096 + v[2] * 64 + v[3]
         IN  [ok |-> n % 4 = 0, bytes |-> <<n \div 1024, (n \div 4) % 256>>]
    ELSE LET n == v[1] * 262144 + v[2] * 4096 + v[3] * 64 + v[4]
             rest == b64_decode_values(SubSeq(v, 5, Len(v)))
         IN  [ok |-> rest.ok,
              bytes |-> <<n \div 65536, (n \div 256) % 256, n % 256>> \o rest.bytes]

\* base64_url::decode(&str): Ok(bytes) or Err
base64_url_decode(str) ==
    IF \E i \in 1 .. Len(str) : b64_value(str[i]) < 0
    THEN [ok |-> FALSE, bytes |-> <<>>]
    ELSE b64_decode_values([i \in 1 .. Len(str) |-> b64_value(str[i])])

(***************************************************************************)
(* Validator::new                                                          *)
(***************************************************************************)
\* The same builder, but with comparisons case-sensitive from the start.
new_case_sensitive ==
    [field |-> "field",
     min |-> None, fmin |-> None, fmax |-> None, max |-> None,
     len |-> None, option_list_string |-> None,
     is_case_sensitive |-> TRUE, is_null |-> FALSE, is_required |-> FALSE,
     i32_value |-> None, i64_value |-> None,
     f32_value |-> None, f64_value |-> None,
     string_value |-> <<>>, parent_string |-> <<>>,
     list_sizes_value |-> <<>>]

\* Validator::new(field): is_required and is_null are set to false, every
\* other field is its type's Default (None, false, "", vec![]).
new ==
    [field |-> "field",
     min |-> None, fmin |-> None, fmax |-> None, max |-> None,
     len |-> None, option_list_string |-> None,
     is_case_sensitive |-> FALSE, is_null |-> FALSE, is_required |-> FALSE,
     i32_value |-> None, i64_value |-> None,
     f32_value |-> None, f64_value |-> None,
     string_value |-> <<>>, parent_string |-> <<>>,
     list_sizes_value |-> <<>>]

Init ==
    /\ self = new
    /\ op = "builder"
    /\ out = Undefined
    /\ calls = <<>>

(***************************************************************************)
(* The setters as functions: fn set_x(mut self, x) -> Self maps a builder  *)
(* and an argument to the updated builder.                                 *)
(***************************************************************************)

Validator_set_as_required(s, b) == [s EXCEPT !.is_required = b]

Validator_set_min(s, n) == [s EXCEPT !.min = Some(n)]

\* set_max with the field of set_min.
Validator_set_max_into_min(s, n) == [s EXCEPT !.min = Some(n)]

Validator_set_max(s, n) == [s EXCEPT !.max = Some(n)]

Validator_set_fmin(s, x) == [s EXCEPT !.fmin = Some(x)]

Validator_set_fmax(s, x) == [s EXCEPT !.fmax = Some(x)]

Validator_set_as_case_sensitive(s, b) == [s EXCEPT !.is_case_sensitive = b]

Validator_set_len(s, n) == [s EXCEPT !.len = Some(n)]

Validator_set_i32_value(s, v) == [s EXCEPT !.i32_value = v]

Validator_set_string_value(s, v) == [s EXCEPT !.string_value = IF v.some THEN v.v ELSE <<>>]

Validator_set_as_nullable(s, b) == [s EXCEPT !.is_null = b]

(***************************************************************************)
(* Setters.  A setter consumes the builder and returns the updated one: the*)
(* caller then holds a builder (op = "builder") and no outcome.  Each      *)
(* setter takes the set its argument is drawn from.                        *)
(***************************************************************************)
Configure(updated) ==
    /\ self' = updated
    /\ op' = "builder"
    /\ out' = Undefined
    /\ UNCHANGED calls

set_as_required ==
    \E b \in BOOLEAN : Configure(Validator_set_as_required(self, b))

set_as_nullable ==
    \E b \in BOOLEAN : Configure(Validator_set_as_nullable(self, b))

set_min(S) ==
    \E n \in S : Configure(Validator_set_min(self, n))

set_max(S) ==
    \E n \in S : Configure(Validator_set_max(self, n))

\* int32.take(): Null::Value(v) gives Some(v); Null::Null and
\* Null::Undefined give None.
set_i32_value(S) ==
    \E v \in OptionOf(S) : Configure(Validator_set_i32_value(self, v))

set_i64_value(S) ==
    \E v \in OptionOf(S) : Configure([self EXCEPT !.i64_value = v])

set_fmin(S) ==
    \E x \in S : Configure(Validator_set_fmin(self, x))

set_fmax(S) ==
    \E x \in S : Configure(Validator_set_fmax(self, x))

set_f32_value(S) ==
    \E v \in OptionOf(S) : Configure([self EXCEPT !.f32_value = v])

set_f64_value(S) ==
    \E v \in OptionOf(S) : Configure([self EXCEPT !.f64_value = v])

\* string.clone().take().unwrap_or_default(): Null::Value(s) gives s;
\* Null::Null and Null::Undefined give the empty string.
set_string_value(S) ==
    \E v \in OptionOf(S) :
        Configure(Validator_set_string_value(self, v))

set_as_case_sensitive ==
    \E b \in BOOLEAN : Configure(Validator_set_as_case_sensitive(self, b))

\* The elements are already strings: value.to_string() copies them.
set_option_list(S) ==
    \E list \in S : Configure([self EXCEPT !.option_list_string = Some(list)])

set_parent_string(S) ==
    \E str \in S : Configure([self EXCEPT !.parent_string = str])

set_len(S) ==
    \E n \in S : Configure(Validator_set_len(self, n))

\* list_sizes.clone().take().unwrap_or_default(): Null::Value(list) gives
\* the list; Null::Null and Null::Undefined give the empty one.
set_list_sizes_value(S) ==
    \E v \in OptionOf(S) :
        Configure([self EXCEPT !.list_sizes_value = IF v.some THEN v.v ELSE <<>>])

(***************************************************************************)
(* validate_i32, validate_i64                                              *)
(***************************************************************************)
\* validate_i32 with the minimum check not gated on is_required.
validate_i32_ungated_min(s) ==
    IF s.is_required /\ ~s.i32_value.some
    THEN Value(i18n_get(Key(s, "empty")))
    ELSE IF /\ s.min.some /\ s.i32_value.some
            /\ s.i32_value.v < as_i32(s.min.v)
    THEN Value(i18n_new(Key(s, "min"), << <<"min", s.min.v>> >>))
    ELSE IF /\ s.max.some /\ s.i32_value.some
            /\ s.is_required
            /\ s.i32_value.v > as_i32(s.max.v)
    THEN Value(i18n_new(Key(s, "max"), << <<"max", s.max.v>> >>))
    ELSE Undefined

\* validate_i32 with the absent value of a nullable field let through.
validate_i32_null_tolerant(s) ==
    IF s.is_required /\ ~s.is_null /\ ~s.i32_value.some
    THEN Value(i18n_get(Key(s, "empty")))
    ELSE IF /\ s.min.some /\ s.max.some /\ s.i32_value.some
            /\ s.is_required
            /\ s.i32_value.v < as_i32(s.min.v)
            /\ s.i32_value.v > as_i32(s.max.v)
    THEN Value(i18n_new(Key(s, "min-max"), << <<"min", s.min.v>>, <<"max", s.max.v>> >>))
    ELSE IF /\ s.min.some /\ s.i32_value.some
            /\ s.is_required
            /\ s.i32_value.v < as_i32(s.min.v)
    THEN Value(i18n_new(Key(s, "min"), << <<"min", s.min.v>> >>))
    ELSE IF /\ s.max.some /\ s.i32_value.some
            /\ s.is_required
            /\ s.i32_value.v > as_i32(s.max.v)
    THEN Value(i18n_new(Key(s, "max"), << <<"max", s.max.v>> >>))
    ELSE Undefined

validate_i32(s) ==
    IF s.is_required /\ ~s.i32_value.some
    THEN Value(i18n_get(Key(s, "empty")))
    ELSE IF /\ s.min.some /\ s.max.some /\ s.i32_value.some
            /\ s.is_required
            /\ s.i32_value.v < as_i32(s.min.v)
            /\ s.i32_value.v > as_i32(s.max.v)
    THEN Value(i18n_new(Key(s, "min-max"), << <<"min", s.min.v>>, <<"max", s.max.v>> >>))
    ELSE IF /\ s.min.some /\ s.i32_value.some
            /\ s.is_required
            /\ s.i32_value.v < as_i32(s.min.v)
    THEN Value(i18n_new(Key(s, "min"), << <<"min", s.min.v>> >>))
    ELSE IF /\ s.max.some /\ s.i32_value.some
            /\ s.is_required
            /\ s.i32_value.v > as_i32(s.max.v)
    THEN Value(i18n_new(Key(s, "max"), << <<"max", s.max.v>> >>))
    ELSE Undefined

validate_i64(s) ==
    IF s.is_required /\ ~s.i64_value.some
    THEN Value(i18n_get(Key(s, "empty")))
    ELSE IF /\ s.min.some /\ s.max.some /\ s.i64_value.some
            /\ s.is_required
            /\ s.i64_value.v < as_i64(s.min.v)
            /\ s.i64_value.v > as_i64(s.max.v)
    THEN Value(i18n_new(Key(s, "min-max"), << <<"min", s.min.v>>, <<"max", s.max.v>> >>))
    ELSE IF /\ s.min.some /\ s.i64_value.some
            /\ s.is_required
            /\ s.i64_value.v < as_i64(s.min.v)
    THEN Value(i18n_new(Key(s, "min"), << <<"min", s.min.v>> >>))
    ELSE IF /\ s.max.some /\ s.i64_value.some
            /\ s.is_required
            /\ s.i64_value.v > as_i64(s.max.v)
    THEN Value(i18n_new(Key(s, "max"), << <<"max", s.max.v>> >>))
    ELSE Undefined

(***************************************************************************)
(* validate_f32, validate_f64                                              *)
(***************************************************************************)
validate_f32(s) ==
    IF s.is_required /\ ~s.f32_value.some
    THEN Value(i18n_get(Key(s, "empty")))
    ELSE IF /\ s.fmin.some /\ s.fmax.some /\ s.f32_value.some
            /\ s.is_required
            /\ f_lt(s.f32_value.v, as_f32(s.fmin.v))
            /\ f_gt(s.f32_value.v, as_f32(s.fmax.v))
    THEN Value(i18n_new(Key(s, "min-max"), << <<"min", s.fmin.v>>, <<"max", s.fmax.v>> >>))
    ELSE IF /\ s.fmin.some /\ s.f32_value.some
            /\ s.is_required
            /\ f_lt(s.f32_value.v, as_f32(s.fmin.v))
    THEN Value(i18n_new(Key(s, "min"), << <<"min", s.fmin.v>> >>))
    ELSE IF /\ s.fmax.some /\ s.f32_value.some
            /\ s.is_required
            /\ f_gt(s.f32_value.v, as_f32(s.fmax.v))
    THEN Value(i18n_new(Key(s, "max"), << <<"max", s.fmax.v>> >>))
    ELSE Undefined

validate_f64(s) ==
    IF s.is_required /\ ~s.f64_value.some
    THEN Value(i18n_get(Key(s, "empty")))
    ELSE IF /\ s.fmin.some /\ s.fmax.some /\ s.f64_value.some
            /\ s.is_required
            /\ f_lt(s.f64_value.v, s.fmin.v)
            /\ f_gt(s.f64_value.v, s.fmax.v)
    THEN Value(i18n_new(Key(s, "min-max"), << <<"min", s.fmin.v>>, <<"max", s.fmax.v>> >>))
    ELSE IF /\ s.fmin.some /\ s.f64_value.some
            /\ s.is_required
            /\ f_lt(s.f64_value.v, s.fmin.v)
    THEN Value(i18n_new(Key(s, "min"), << <<"min", s.fmin.v>> >>))
    ELSE IF /\ s.fmax.some /\ s.f64_value.some
            /\ s.is_required
            /\ f_gt(s.f64_value.v, s.fmax.v)
    THEN Value(i18n_new(Key(s, "max"), << <<"max", s.fmax.v>> >>))
    ELSE Undefined

(***************************************************************************)
(* validate_string, validate_password_simple, validate_name, validate_email*)
(***************************************************************************)
\* validate_string with the emptiness check gated on is_required, as the
\* numeric evaluators gate theirs.
validate_string_empty_if_required(s) ==
    IF s.is_required /\ is_empty(s.string_value)
    THEN Value(i18n_get(Key(s, "empty")))
    ELSE IF s.min.some /\ str_len(s.string_value) < s.min.v
    THEN Value(i18n_new(Key(s, "min"), << <<"min", s.min.v>> >>))
    ELSE IF s.max.some /\ str_len(s.string_value) > s.max.v
    THEN Value(i18n_new(Key(s, "max"), << <<"max", s.max.v>> >>))
    ELSE Undefined

\* validate_string with the length checks gated on is_required, as the
\* numeric evaluators gate theirs.
validate_string_bounds_if_required(s) ==
    IF is_empty(s.string_value)
    THEN Value(i18n_get(Key(s, "empty")))
    ELSE IF s.is_required /\ s.min.some /\ str_len(s.string_value) < s.min.v
    THEN Value(i18n_new(Key(s, "min"), << <<"min", s.min.v>> >>))
    ELSE IF s.is_required /\ s.max.some /\ str_len(s.string_value) > s.max.v
    THEN Value(i18n_new(Key(s, "max"), << <<"max", s.max.v>> >>))
    ELSE Undefined

validate_string(s) ==
    IF is_empty(s.string_value)
    THEN Value(i18n_get(Key(s, "empty")))
    ELSE IF s.min.some /\ s.max.some
    THEN IF str_len(s.string_value) < s.min.v /\ str_len(s.string_value) > s.max.v
         THEN Value(i18n_new(Key(s, "min-max"),
                             << <<"min", s.min.v>>, <<"max", s.max.v>> >>))
         ELSE IF str_len(s.string_value) < s.min.v
         THEN Value(i18n_new(Key(s, "min"), << <<"min", s.min.v>> >>))
         ELSE IF str_len(s.string_value) > s.max.v
         THEN Value(i18n_new(Key(s, "max"), << <<"max", s.max.v>> >>))
         ELSE Undefined
    ELSE IF s.min.some /\ ~s.max.some
    THEN IF str_len(s.string_value) < s.min.v
         THEN Value(i18n_new(Key(s, "min"), << <<"min", s.min.v>> >>))
         ELSE Undefined
    ELSE IF ~s.min.some /\ s.max.some
    THEN IF str_len(s.string_value) > s.max.v
         THEN Value(i18n_new(Key(s, "max"), << <<"max", s.max.v>> >>))
         ELSE Undefined
    ELSE Undefined

validate_password_simple(s) == validate_string(s)

\* validate_name with the pattern searched for anywhere in the candidate
\* (no ^ and $ anchors): one accepted char is enough.
validate_name_unanchored(s) ==
    IF validate_string(s).kind = "value"
    THEN validate_string(s)
    ELSE IF ~(\E i \in 1 .. Len(s.string_value) : is_name_char(s.string_value[i]))
    THEN Value(i18n_get(Key(s, "invalid")))
    ELSE Undefined

\* The pattern is a constant that compiles, so Regex::new returns Ok.
validate_name(s) ==
    IF validate_string(s).kind = "value"
    THEN validate_string(s)
    ELSE IF ~name_regex_is_match(s.string_value)
    THEN Value(i18n_get(Key(s, "invalid")))
    ELSE Undefined

\* mailchecker::is_valid is a library call: `is_valid` is its answer for
\* s.string_value.
validate_email(s, is_valid) ==
    IF is_empty(s.string_value)
    THEN Value(i18n_get(Key(s, "empty")))
    ELSE IF ~is_valid
    THEN Value(i18n_get(Key(s, "invalid")))
    ELSE Undefined

(***************************************************************************)
(* validate_password_strict: the object of the errors, keyed by check, or  *)
(* no-error when no check inserted a key.                                  *)
(***************************************************************************)
\* The keys when the function returns at the first failed check.
password_strict_keys_first_only(s) ==
    LET length == str_len(s.string_value)
        b == bytes(s.string_value)
        c == s.string_value
    IN  IF length < MIN THEN {"minimum"}
        ELSE IF length > MAX THEN {"maximum"}
        ELSE IF ~(\E i \in 1 .. Len(b) : is_ascii_lowercase(b[i])) THEN {"lowercase"}
        ELSE IF ~(\E i \in 1 .. Len(b) : is_ascii_uppercase(b[i])) THEN {"uppercase"}
        ELSE IF \A i \in 1 .. Len(c) : is_ascii_alphabetic(c[i]) THEN {"number"}
        ELSE IF \A i \in 1 .. Len(c) : is_ascii_alphanumeric(c[i]) THEN {"symbol"}
        ELSE {}

\* The keys when `number` and `symbol` are tested with `any non-...` on a
\* non-empty candidate only, so that the empty string misses them.
password_strict_keys_nonempty_all(s) ==
    LET length == str_len(s.string_value)
        b == bytes(s.string_value)
        c == s.string_value
    IN  (IF length < MIN THEN {"minimum"} ELSE {})
        \cup (IF length > MAX THEN {"maximum"} ELSE {})
        \cup (IF ~(\E i \in 1 .. Len(b) : is_ascii_lowercase(b[i]))
              THEN {"lowercase"} ELSE {})
        \cup (IF ~(\E i \in 1 .. Len(b) : is_ascii_uppercase(b[i]))
              THEN {"uppercase"} ELSE {})
        \cup (IF Len(c) > 0 /\ \A i \in 1 .. Len(c) : is_ascii_alphabetic(c[i])
              THEN {"number"} ELSE {})
        \cup (IF Len(c) > 0 /\ \A i \in 1 .. Len(c) : is_ascii_alphanumeric(c[i])
              THEN {"symbol"} ELSE {})

\* The keys inserted into `errors`.
password_strict_keys(s) ==
    LET length == str_len(s.string_value)
        b == bytes(s.string_value)
        c == s.string_value
    IN  (IF length < MIN THEN {"minimum"} ELSE {})
        \cup (IF length > MAX THEN {"maximum"} ELSE {})
        \cup (IF ~(\E i \in 1 .. Len(b) : is_ascii_lowercase(b[i]))
              THEN {"lowercase"} ELSE {})
        \cup (IF ~(\E i \in 1 .. Len(b) : is_ascii_uppercase(b[i]))
              THEN {"uppercase"} ELSE {})
        \cup (IF \A i \in 1 .. Len(c) : is_ascii_alphabetic(c[i])
              THEN {"number"} ELSE {})
        \cup (IF \A i \in 1 .. Len(c) : is_ascii_alphanumeric(c[i])
              THEN {"symbol"} ELSE {})

\* The message inserted under key k.
password_strict_message(s, k) ==
    IF k = "minimum" THEN i18n_new(Key(s, k), << <<"min", MIN>> >>)
    ELSE IF k = "maximum" THEN i18n_new(Key(s, k), << <<"max", MAX>> >>)
    ELSE i18n_get(Key(s, k))

validate_password_strict(s) ==
    IF password_strict_keys(s) # {}
    THEN Value([k \in password_strict_keys(s) |-> password_strict_message(s, k)])
    ELSE Undefined

(***************************************************************************)
(* validate_list_string, validate_list_options                             *)
(***************************************************************************)
\* validate_list_string with the candidate lower-cased but the options
\* compared as stored.
validate_list_string_raw_options(s) ==
    IF s.is_required /\ is_empty(s.string_value)
    THEN Value(i18n_get(Key(s, "empty")))
    ELSE IF s.option_list_string.some
    THEN IF s.is_case_sensitive
         THEN IF s.is_required
                 /\ ~contains(s.option_list_string.v, s.string_value)
              THEN Value(i18n_get(Key(s, "invalid")))
              ELSE Undefined
         ELSE IF s.is_required
                 /\ ~contains(s.option_list_string.v,
                              to_lowercase(s.string_value))
              THEN Value(i18n_get(Key(s, "invalid")))
              ELSE Undefined
    ELSE Undefined

validate_list_string(s) ==
    IF s.is_required /\ is_empty(s.string_value)
    THEN Value(i18n_get(Key(s, "empty")))
    ELSE IF s.option_list_string.some
    THEN IF s.is_case_sensitive
         THEN IF s.is_required
                 /\ ~contains(s.option_list_string.v, s.string_value)
              THEN Value(i18n_get(Key(s, "invalid")))
              ELSE Undefined
         ELSE IF s.is_required
                 /\ ~contains(map_to_lowercase(s.option_list_string.v),
                              to_lowercase(s.string_value))
              THEN Value(i18n_get(Key(s, "invalid")))
              ELSE Undefined
    ELSE Undefined

\* format!("❛{}❜", item): the item between U+275B and U+275C
wrap_item(item) == <<10075>> \o item \o <<10076>>

RECURSIVE join(_, _)
\* [String]::join(sep)
join(items, sep) ==
    IF Len(items) = 0 THEN <<>>
    ELSE IF Len(items) = 1 THEN items[1]
    ELSE items[1] \o sep \o join(Tail(items), sep)

\* The `options` argument: "a, b and c"
options_args(s) ==
    LET list == IF s.option_list_string.some THEN s.option_list_string.v ELSE <<>>
        wrapped_items == [i \in 1 .. Len(list) |-> wrap_item(list[i])]
        n == Len(wrapped_items)
    IN  IF n > 1
        THEN join(SubSeq(wrapped_items, 1, n - 1), <<44, 32>>)
                 \o <<32, 97, 110, 100, 32>> \o wrapped_items[n]
        ELSE join(wrapped_items, <<>>)

\* options_invalid with the parent argument whether or not a parent is set.
options_invalid_parent_always(s) ==
    i18n_new(Key(s, "invalid"),
             << <<"options", options_args(s)>>, <<"parent", s.parent_string>> >>)

\* The {field}-invalid message of validate_list_options
options_invalid(s) ==
    IF is_empty(s.parent_string)
    THEN i18n_new(Key(s, "invalid"), << <<"options", options_args(s)>> >>)
    ELSE i18n_new(Key(s, "invalid"),
                  << <<"options", options_args(s)>>, <<"parent", s.parent_string>> >>)

validate_list_options(s) ==
    IF s.is_required /\ is_empty(s.string_value)
    THEN Value(i18n_get(Key(s, "empty")))
    ELSE IF s.option_list_string.some
    THEN IF s.is_case_sensitive
         THEN IF s.is_required
                 /\ ~contains(s.option_list_string.v, s.string_value)
              THEN Value(options_invalid(s))
              ELSE Undefined
         ELSE IF s.is_required
                 /\ ~contains(map_to_lowercase(s.option_list_string.v),
                              to_lowercase(s.string_value))
              THEN Value(options_invalid(s))
              ELSE Undefined
    ELSE Undefined

(***************************************************************************)
(* validate_b64_bytes                                                      *)
(***************************************************************************)
\* validate_b64_bytes with len compared with the length of the candidate
\* instead of the length of what it decodes to.
validate_b64_bytes_encoded_len(s) ==
    IF s.is_required /\ is_empty(s.string_value)
    THEN Value(i18n_get(Key(s, "invalid")))
    ELSE IF /\ s.len.some
            /\ base64_url_decode(s.string_value).ok
            /\ s.len.v # str_len(s.string_value)
    THEN Value(i18n_new(Key(s, "len"), << <<"len", s.len.v>> >>))
    ELSE Undefined

validate_b64_bytes(s) ==
    IF s.is_required /\ is_empty(s.string_value)
    THEN Value(i18n_get(Key(s, "invalid")))
    ELSE IF /\ s.len.some
            /\ base64_url_decode(s.string_value).ok
            /\ s.len.v # Len(base64_url_decode(s.string_value).bytes)
    THEN Value(i18n_new(Key(s, "len"), << <<"len", s.len.v>> >>))
    ELSE Undefined

(***************************************************************************)
(* validate_list_sizes.  A Size is its scale and orientation, as the       *)
(* strings to_string() gives, and its width and height.                    *)
(***************************************************************************)
size_scale == {"XXSM", "XSM", "SM", "MD", "LG", "XLG", "XXLG"}

size_type == {"THUMBNAIL", "LANDSCAPE", "PORTRAIT"}

\* serde_json::to_string(&size): the JSON text of the size
serde_json_to_string(size) == [json |-> size]

\* !has_scale || !has_type || !has_width || !has_height
size_is_invalid(size) ==
    \/ ~(size.scale \in size_scale)
    \/ ~(size.orientation \in size_type)
    \/ ~(size.width > 0)
    \/ ~(size.height > 0)

RECURSIVE size_errors_per_field(_, _)
\* The loop pushing one error for every failed field of every size.
size_errors_per_field(s, list) ==
    IF list = <<>> THEN <<>>
    ELSE LET size == Head(list)
             e == <<i18n_new(Key(s, "invalid"),
                             << <<"entry", serde_json_to_string(size)>> >>)>>
         IN  (IF ~(size.scale \in size_scale) THEN e ELSE <<>>)
             \o (IF ~(size.orientation \in size_type) THEN e ELSE <<>>)
             \o (IF ~(size.width > 0) THEN e ELSE <<>>)
             \o (IF ~(size.height > 0) THEN e ELSE <<>>)
             \o size_errors_per_field(s, Tail(list))

RECURSIVE size_errors(_, _)
\* for size in self.list_sizes_value.clone() { .. errors.push(..) }
size_errors(s, list) ==
    IF list = <<>> THEN <<>>
    ELSE (IF size_is_invalid(Head(list))
          THEN <<i18n_new(Key(s, "invalid"),
                          << <<"entry", serde_json_to_string(Head(list))>> >>)>>
          ELSE <<>>)
         \o size_errors(s, Tail(list))

\* The errors vector at the end of validate_list_sizes
list_sizes_errors(s) ==
    (IF s.is_required /\ Len(s.list_sizes_value) = 0
     THEN <<i18n_get(Key(s, "empty"))>>
     ELSE <<>>)
    \o (IF s.is_required /\ Len(s.list_sizes_value) # 0
        THEN size_errors(s, s.list_sizes_value)
        ELSE <<>>)

validate_list_sizes(s) ==
    IF list_sizes_errors(s) = <<>>
    THEN Undefined
    ELSE Value(list_sizes_errors(s))

\* An evaluator borrows the builder (&self) and returns its outcome.
Return(name, result) ==
    /\ op' = name
    /\ out' = result
    /\ UNCHANGED <<self, calls>>

call_validate_i32 == Return("validate_i32", validate_i32(self))

call_validate_i64 == Return("validate_i64", validate_i64(self))

call_validate_f32 == Return("validate_f32", validate_f32(self))

call_validate_f64 == Return("validate_f64", validate_f64(self))

call_validate_string == Return("validate_string", validate_string(self))

call_validate_password_simple ==
    Return("validate_password_simple", validate_password_simple(self))

call_validate_name == Return("validate_name", validate_name(self))

call_validate_email ==
    \E is_valid \in BOOLEAN :
        Return("validate_email", validate_email(self, is_valid))

call_validate_password_strict ==
    Return("validate_password_strict", validate_password_strict(self))

call_validate_list_string ==
    Return("validate_list_string", validate_list_string(self))

call_validate_list_options ==
    Return("validate_list_options", validate_list_options(self))

call_validate_b64_bytes ==
    Return("validate_b64_bytes", validate_b64_bytes(self))

call_validate_list_sizes ==
    Return("validate_list_sizes", validate_list_sizes(self))

(***************************************************************************)
(* The integer evaluators over every bound and every value of the scaled   *)
(* widths.                                                                 *)
(***************************************************************************)
NextInt ==
    \/ set_as_required
    \/ set_min(USize)
    \/ set_max(USize)
    \/ set_i32_value(I32)
    \/ set_i64_value(I64)
    \/ call_validate_i32
    \/ call_validate_i64

SpecInt == Init /\ [][NextInt]_vars

(***************************************************************************)
(* The four numeric evaluators together, over sampled arguments: bounds at *)
(* both ends of the unsigned range, values on both sides of them, a NaN    *)
(* bound.                                                                  *)
(***************************************************************************)
USizeSample == {0, 1, Pow2(USIZE_BITS) - 1}

IntSample == {0 - 1, 1}

FBoundSample == {F(0), NaN}

F32Sample == {F(0 - 2), F(2)}

F64Sample == {F(0 - 1), F(1)}

NextNum ==
    \/ set_as_required
    \/ set_min(USizeSample)
    \/ set_max(USizeSample)
    \/ set_fmin(FBoundSample)
    \/ set_fmax(FBoundSample)
    \/ set_i32_value(IntSample)
    \/ set_i64_value(IntSample)
    \/ set_f32_value(F32Sample)
    \/ set_f64_value(F64Sample)
    \/ call_validate_i32
    \/ call_validate_i64
    \/ call_validate_f32
    \/ call_validate_f64

SpecNum == Init /\ [][NextNum]_vars

(***************************************************************************)
(* The string evaluators over every string of at most MaxStrLen chars of   *)
(* an alphabet with a letter, a digit, a two-byte letter and the three-byte *)
(* middle dot, and every length bound up to MaxLenBound.                   *)
(***************************************************************************)
MaxStrLen == 2

MaxLenBound == 6

\* a, 1, U+00E9, U+30FB
StrAlphabet == {97, 49, 233, 12539}

NextStr ==
    \/ set_as_required
    \/ set_min(0 .. MaxLenBound)
    \/ set_max(0 .. MaxLenBound)
    \/ set_string_value(StringsUpTo(StrAlphabet, MaxStrLen))
    \/ call_validate_string
    \/ call_validate_password_simple
    \/ call_validate_name
    \/ call_validate_email

SpecStr == Init /\ [][NextStr]_vars

(***************************************************************************)
(* validate_password_strict over passwords made of a prefix of at most     *)
(* MaxPwdPrefix chars and a tail: nothing, or a run of `a` alone or after  *)
(* "A1!", the runs putting the length on both sides of MIN and of MAX; and *)
(* over "abc".                                                             *)
(***************************************************************************)
MaxPwdPrefix == 2

\* a, A, 1, !, U+00E9
PwdAlphabet == {97, 65, 49, 33, 233}

PwdTails ==
    {<<>>, Repeat(97, MIN - 2), Repeat(97, MIN - 1), Repeat(97, MAX - 1),
     <<65, 49, 33>> \o Repeat(97, MIN - 4),
     <<65, 49, 33>> \o Repeat(97, MAX - 4)}

PwdInputs ==
    {p \o t : p \in StringsUpTo(PwdAlphabet, MaxPwdPrefix), t \in PwdTails}
        \cup {<<97, 98, 99>>}

NextPwd ==
    \/ set_string_value(PwdInputs)
    \/ call_validate_password_strict

SpecPwd == Init /\ [][NextPwd]_vars

(***************************************************************************)
(* The option-list evaluators over every list of at most MaxOptions of the *)
(* options "Red", "Blue", "red" and U+00E9, and candidates that are an     *)
(* option, differ from one in case only, or are none.                      *)
(***************************************************************************)
MaxOptions == 2

Red == <<82, 101, 100>>

Blue == <<66, 108, 117, 101>>

red == <<114, 101, 100>>

green == <<103, 114, 101, 101, 110>>

OptionStrings == {Red, Blue, red, <<233>>}

Candidates == {<<>>, Red, red, Blue, green, <<201>>}

\* p
ParentStrings == {<<>>, <<112>>}

ListSetters ==
    \/ set_as_required
    \/ set_option_list(ListsUpTo(OptionStrings, MaxOptions))
    \/ set_string_value(Candidates)
    \/ set_parent_string(ParentStrings)

ListEvaluators ==
    \/ call_validate_list_string
    \/ call_validate_list_options

NextList == ListSetters \/ set_as_case_sensitive \/ ListEvaluators

SpecList == Init /\ [][NextList]_vars

\* The same on a builder on which set_as_case_sensitive is never called.
NextListDefault == ListSetters \/ ListEvaluators

SpecListDefault == Init /\ [][NextListDefault]_vars

(***************************************************************************)
(* validate_b64_bytes over the URL-safe base64 encodings of runs of at most*)
(* MaxBytes bytes 0x00 or 0xFF, each also with a `B` or a `!` appended     *)
(* (one char more: a group of one char or left-over bits; a char outside   *)
(* the alphabet), and every len up to MaxBytes.                            *)
(***************************************************************************)
MaxBytes == 16

\* The char of a six-bit value.
b64_char(v) ==
    IF v < 26 THEN v + 65
    ELSE IF v < 52 THEN v + 71
    ELSE IF v < 62 THEN v - 4
    ELSE IF v = 62 THEN 45
    ELSE 95

RECURSIVE b64_encode(_)
\* The URL-safe base64 encoding, without padding, of a sequence of bytes.
b64_encode(b) ==
    IF Len(b) = 0 THEN <<>>
    ELSE IF Len(b) = 1
    THEN <<b64_char(b[1] \div 4), b64_char((b[1] % 4) * 16)>>
    ELSE IF Len(b) = 2
    THEN <<b64_char(b[1] \div 4),
           b64_char((b[1] % 4) * 16 + (b[2] \div 16)),
           b64_char((b[2] % 16) * 4)>>
    ELSE <<b64_char(b[1] \div 4),
           b64_char((b[1] % 4) * 16 + (b[2] \div 16)),
           b64_char((b[2] % 16) * 4 + (b[3] \div 64)),
           b64_char(b[3] % 64)>> \o b64_encode(SubSeq(b, 4, Len(b)))

ByteRuns == {Repeat(x, n) : x \in {0, 255}, n \in 0 .. MaxBytes}

\* nothing, B, !
B64Suffixes == {<<>>, <<66>>, <<33>>}

B64Inputs == {b64_encode(b) \o x : b \in ByteRuns, x \in B64Suffixes}

NextB64 ==
    \/ set_as_required
    \/ set_len(0 .. MaxBytes)
    \/ set_string_value(B64Inputs)
    \/ call_validate_b64_bytes

SpecB64 == Init /\ [][NextB64]_vars

(***************************************************************************)
(* validate_list_sizes over every list of at most MaxSizes of a few sizes  *)
(* (valid ones, ones with one bad field, one with every field bad), and    *)
(* over the one-element lists of every size with a listed or unlisted      *)
(* scale and orientation and a negative, zero or positive width and height.*)
(***************************************************************************)
MaxSizes == 2

Size(scale, orientation, width, height) ==
    [scale |-> scale, orientation |-> orientation,
     width |-> width, height |-> height]

SizeSample ==
    {Size("XXSM", "THUMBNAIL", 1, 1), Size("MD", "LANDSCAPE", 1, 1),
     Size("NONE", "PORTRAIT", 1, 1), Size("MD", "NONE", 1, 1),
     Size("MD", "PORTRAIT", 0, 1), Size("MD", "PORTRAIT", 1, 0),
     Size("MD", "PORTRAIT", 0 - 1, 1), Size("NONE", "NONE", 0, 0)}

AllSizes ==
    {Size(sc, o, w, h) :
        sc \in size_scale \cup {"NONE"}, o \in size_type \cup {"NONE"},
        w \in {0 - 1, 0, 1}, h \in {0 - 1, 0, 1}}

SizeListInputs ==
    ListsUpTo(SizeSample, MaxSizes) \cup {<<size>> : size \in AllSizes}

NextSizes ==
    \/ set_as_required
    \/ set_list_sizes_value(SizeListInputs)
    \/ call_validate_list_sizes

SpecSizes == Init /\ [][NextSizes]_vars

(***************************************************************************)
(* validate_name over every string of at most MaxStrLen chars of an        *)
(* alphabet with the accepted chars (letters of one and two bytes, space,  *)
(* hyphen, apostrophe, U+30FB) and refused ones (a digit, the Latin middle *)
(* dot U+00B7), over two sample names, and a few length bounds.            *)
(***************************************************************************)
\* a, 1, U+00E9, U+30FB, space, -, ', U+00B7
NameAlphabet == {97, 49, 233, 12539, 32, 45, 39, 183}

\* Mary-Jane O'Brien
MaryJaneOBrien ==
    <<77, 97, 114, 121, 45, 74, 97, 110, 101, 32, 79, 39, 66, 114, 105, 101, 110>>

\* John123
John123 == <<74, 111, 104, 110, 49, 50, 51>>

NameInputs ==
    StringsUpTo(NameAlphabet, MaxStrLen) \cup {MaryJaneOBrien, John123}

NameBounds == {2, 4}

NextName ==
    \/ set_min(NameBounds)
    \/ set_max(NameBounds)
    \/ set_string_value(NameInputs)
    \/ call_validate_string
    \/ call_validate_name

SpecName == Init /\ [][NextName]_vars

(***************************************************************************)
(* Sequences of at most MaxCalls setter calls on a fresh builder, each     *)
(* call recorded in `calls`: the eight configuration setters, and two      *)
(* value setters so that the value slots are not all unset.                *)
(***************************************************************************)
MaxCalls == 2

\* The builder returned by the call c = <<setter, argument>> on builder s.
apply_call(s, c) ==
    CASE c[1] = "set_min" -> Validator_set_min(s, c[2])
      [] c[1] = "set_max" -> Validator_set_max(s, c[2])
      [] c[1] = "set_len" -> Validator_set_len(s, c[2])
      [] c[1] = "set_fmin" -> Validator_set_fmin(s, c[2])
      [] c[1] = "set_fmax" -> Validator_set_fmax(s, c[2])
      [] c[1] = "set_as_case_sensitive" -> Validator_set_as_case_sensitive(s, c[2])
      [] c[1] = "set_as_nullable" -> Validator_set_as_nullable(s, c[2])
      [] c[1] = "set_as_required" -> Validator_set_as_required(s, c[2])
      [] c[1] = "set_i32_value" -> Validator_set_i32_value(s, c[2])
      [] c[1] = "set_string_value" -> Validator_set_string_value(s, c[2])

\* One more call, of `setter` with an argument of S.
chain(setter, S) ==
    \E a \in S :
        /\ Len(calls) < MaxCalls
        /\ self' = apply_call(self, <<setter, a>>)
        /\ calls' = Append(calls, <<setter, a>>)
        /\ op' = "builder"
        /\ out' = Undefined

UsizeArgs == {1, 2}

FloatArgs == {F(0), F(1)}

NextConfig ==
    \/ chain("set_min", UsizeArgs)
    \/ chain("set_max", UsizeArgs)
    \/ chain("set_len", UsizeArgs)
    \/ chain("set_fmin", FloatArgs)
    \/ chain("set_fmax", FloatArgs)
    \/ chain("set_as_case_sensitive", BOOLEAN)
    \/ chain("set_as_nullable", BOOLEAN)
    \/ chain("set_as_required", BOOLEAN)
    \/ chain("set_i32_value", OptionOf({1}))
    \/ chain("set_string_value", OptionOf({<<97>>}))

SpecConfig == Init /\ [][NextConfig]_vars

(***************************************************************************)
(* Every evaluator over builders configured with and without               *)
(* set_as_nullable: one value, present or absent, per numeric slot, three  *)
(* candidate strings, one bound, one option list and one size list.        *)
(***************************************************************************)
NullableStrings == {<<>>, Red, <<49>>}

NextNullable ==
    \/ set_as_nullable
    \/ set_as_required
    \/ set_min({2})
    \/ set_len({2})
    \/ set_fmin({F(0)})
    \/ set_i32_value({1})
    \/ set_i64_value({1})
    \/ set_f32_value({F(0 - 2)})
    \/ set_f64_value({F(1)})
    \/ set_string_value(NullableStrings)
    \/ set_option_list({<<Blue>>})
    \/ set_list_sizes_value({<<Size("NONE", "PORTRAIT", 1, 1)>>})
    \/ call_validate_i32
    \/ call_validate_i64
    \/ call_validate_f32
    \/ call_validate_f64
    \/ call_validate_string
    \/ call_validate_password_simple
    \/ call_validate_name
    \/ call_validate_email
    \/ call_validate_password_strict
    \/ call_validate_list_string
    \/ call_validate_list_options
    \/ call_validate_b64_bytes
    \/ call_validate_list_sizes

SpecNullable == Init /\ [][NextNullable]_vars

\* Outcome tests shared by the properties below.
IsNoError(o) == o = Undefined

IsError(o, suffix) == o.kind = "value" /\ o.value.key = Key(self, suffix)

(***************************************************************************)
(* C1.  validate_i32 and validate_i64 on a required field with both bounds *)
(* set, min <= max, and a present value: a value within [min, max] yields  *)
(* no-error, a value below min yields {field}-min, a value above max yields*)
(* {field}-max, for any unsigned machine-word bounds.  The bounds are      *)
(* compared here as the unsigned numbers they are.                         *)
(***************************************************************************)
RangeOutcomeOk(value, o) ==
    /\ (self.min.v <= value /\ value <= self.max.v) => IsNoError(o)
    /\ value < self.min.v => IsError(o, "min")
    /\ value > self.max.v => IsError(o, "max")

BoundedRequired ==
    /\ self.is_required
    /\ self.min.some /\ self.max.some
    /\ self.min.v <= self.max.v

C1_IntRange ==
    /\ (op = "validate_i32" /\ BoundedRequired /\ self.i32_value.some)
          => RangeOutcomeOk(self.i32_value.v, out)
    /\ (op = "validate_i64" /\ BoundedRequired /\ self.i64_value.some)
          => RangeOutcomeOk(self.i64_value.v, out)

(***************************************************************************)
(* C8.  With is_required = false the four numeric evaluators return        *)
(* no-error whatever the candidate and the bounds are.                     *)
(***************************************************************************)
NumericEvaluators ==
    {"validate_i32", "validate_i64", "validate_f32", "validate_f64"}

C8_OptionalNumericNeverFails ==
    (op \in NumericEvaluators /\ ~self.is_required) => IsNoError(out)

\* An optional i32 below its minimum and an optional f64 above its maximum
\* have been evaluated.
C8_Witness ==
    \/ /\ op = "validate_i32" /\ ~self.is_required
       /\ self.min.some /\ self.i32_value.some
       /\ self.i32_value.v < self.min.v
       /\ IsNoError(out)
    \/ /\ op = "validate_f64" /\ ~self.is_required
       /\ self.fmax.some /\ self.f64_value.some
       /\ f_gt(self.f64_value.v, self.fmax.v)
       /\ IsNoError(out)

(***************************************************************************)
(* C2.  validate_string, validate_name, validate_password_simple and       *)
(* validate_email return {field}-empty for an empty candidate string,      *)
(* whatever is_required, min and max are: the emptiness check comes first. *)
(***************************************************************************)
StringEvaluators ==
    {"validate_string", "validate_name", "validate_password_simple",
     "validate_email"}

C2_EmptyStringIsEmptyError ==
    (op \in StringEvaluators /\ Len(self.string_value) = 0)
        => out = Value(i18n_get(Key(self, "empty")))

\* An optional field with an empty candidate and a minimum length it also
\* misses has been evaluated by validate_name.
C2_Witness ==
    /\ op = "validate_name"
    /\ Len(self.string_value) = 0
    /\ ~self.is_required
    /\ self.min.some /\ self.min.v > 0
    /\ self.max.some
    /\ IsError(out, "empty")

(***************************************************************************)
(* C3.  validate_string on a non-empty candidate, with min <= max when     *)
(* both are set: {field}-min when min is set and the length (in bytes) is  *)
(* below it, {field}-max when max is set and the length is above it,       *)
(* no-error otherwise; and the outcome is the one the builder with         *)
(* is_required flipped gets.                                               *)
(***************************************************************************)
ByteLength(str) ==
    LET width(c) == IF c < 128 THEN 1 ELSE IF c < 2048 THEN 2 ELSE 3
        RECURSIVE sum(_)
        sum(i) == IF i = 0 THEN 0 ELSE width(str[i]) + sum(i - 1)
    IN  sum(Len(str))

C3_StringLengthChecks ==
    (/\ op = "validate_string"
     /\ Len(self.string_value) > 0
     /\ (self.min.some /\ self.max.some) => self.min.v <= self.max.v)
    =>
    LET n == ByteLength(self.string_value)
        below == self.min.some /\ n < self.min.v
        above == self.max.some /\ n > self.max.v
    IN  /\ below => out = Value(i18n_new(Key(self, "min"), << <<"min", self.min.v>> >>))
        /\ above => out = Value(i18n_new(Key(self, "max"), << <<"max", self.max.v>> >>))
        /\ (~below /\ ~above) => IsNoError(out)
        /\ out = validate_string([self EXCEPT !.is_required = ~self.is_required])

\* An optional field whose candidate is longer than max (both bounds set)
\* has been reported.
C3_Witness ==
    /\ op = "validate_string"
    /\ ~self.is_required
    /\ self.min.some /\ self.max.some /\ self.min.v <= self.max.v
    /\ ByteLength(self.string_value) > self.max.v
    /\ IsError(out, "max")

(***************************************************************************)
(* C4.  validate_password_strict accumulates six independent checks: its   *)
(* error object has key `minimum` iff the length (in bytes) is below 8,    *)
(* `maximum` iff it is above 64, `lowercase` iff the candidate has no ASCII*)
(* lower-case letter, `uppercase` iff it has no ASCII upper-case letter,   *)
(* `number` iff every char is an ASCII letter, `symbol` iff every char is  *)
(* an ASCII letter or digit; it is no-error iff none of the six holds; and *)
(* "abc" yields exactly minimum, uppercase, number, symbol.                *)
(***************************************************************************)
ErrorKeys(o) == IF o.kind = "value" THEN DOMAIN o.value ELSE {}

Chars(str) == {str[i] : i \in 1 .. Len(str)}

AsciiLower == 97 .. 122

AsciiUpper == 65 .. 90

AsciiDigit == 48 .. 57

C4_PasswordStrictKeys ==
    op = "validate_password_strict" =>
    LET pw == self.string_value
        keys == ErrorKeys(out)
    IN  /\ "minimum" \in keys <=> ByteLength(pw) < 8
        /\ "maximum" \in keys <=> ByteLength(pw) > 64
        /\ "lowercase" \in keys <=> Chars(pw) \cap AsciiLower = {}
        /\ "uppercase" \in keys <=> Chars(pw) \cap AsciiUpper = {}
        /\ "number" \in keys <=> Chars(pw) \subseteq (AsciiLower \cup AsciiUpper)
        /\ "symbol" \in keys <=>
               Chars(pw) \subseteq (AsciiLower \cup AsciiUpper \cup AsciiDigit)
        /\ keys \subseteq {"minimum", "maximum", "lowercase", "uppercase",
                           "number", "symbol"}
        /\ IsNoError(out) <=> keys = {}
        /\ pw = <<97, 98, 99>> =>
               keys = {"minimum", "uppercase", "number", "symbol"}

\* A password longer than 64 bytes with no upper-case letter and no symbol
\* has got several keys at once.
C4_Witness ==
    /\ op = "validate_password_strict"
    /\ ByteLength(self.string_value) > 64
    /\ ErrorKeys(out) = {"maximum", "uppercase", "symbol"}

(***************************************************************************)
(* C5, as stated.  validate_password_strict on the empty string returns an *)
(* error object whose only key is `minimum`.                               *)
(***************************************************************************)
C5_EmptyPasswordOnlyMinimum ==
    (op = "validate_password_strict" /\ Len(self.string_value) = 0)
        => ErrorKeys(out) = {"minimum"}

(***************************************************************************)
(* C5, amended.  validate_password_strict on the empty string returns an   *)
(* error object with the keys minimum, lowercase, uppercase, number and    *)
(* symbol (every check but maximum holds of the empty string).             *)
(***************************************************************************)
C5_EmptyPasswordKeys ==
    (op = "validate_password_strict" /\ Len(self.string_value) = 0)
        => /\ out.kind = "value"
           /\ DOMAIN out.value =
                {"minimum", "lowercase", "uppercase", "number", "symbol"}

\* The empty password has been evaluated.
C5_Witness ==
    /\ op = "validate_password_strict"
    /\ Len(self.string_value) = 0
    /\ out.kind = "value"

(***************************************************************************)
(* C6.  validate_list_string on a required field with an option list and a *)
(* non-empty candidate: with is_case_sensitive = false it returns no-error *)
(* iff the lower-cased candidate is the lower-cased form of some option,   *)
(* with is_case_sensitive = true iff the candidate is some option exactly; *)
(* otherwise it returns {field}-invalid.  ["Red", "Blue"] accepts "red"    *)
(* and rejects "green".  The call leaves the stored option list as it was. *)
(***************************************************************************)
Lower(str) ==
    [i \in 1 .. Len(str) |->
        IF (65 <= str[i] /\ str[i] <= 90) \/ str[i] = 201
        THEN str[i] + 32 ELSE str[i]]

OptionSet(b) == {b.option_list_string.v[i] : i \in 1 .. Len(b.option_list_string.v)}

IsMember(b) ==
    IF b.is_case_sensitive
    THEN b.string_value \in OptionSet(b)
    ELSE Lower(b.string_value) \in {Lower(o) : o \in OptionSet(b)}

C6_ListStringMembership ==
    [][(/\ op' = "validate_list_string"
        /\ self.is_required
        /\ self.option_list_string.some
        /\ Len(self.string_value) > 0)
       =>
       /\ IsMember(self) => IsNoError(out')
       /\ ~IsMember(self) => out' = Value(i18n_get(Key(self, "invalid")))
       /\ (/\ ~self.is_case_sensitive
           /\ self.option_list_string.v = <<Red, Blue>>)
          => /\ self.string_value = red => IsNoError(out')
             /\ self.string_value = green => IsError(out', "invalid")
       /\ self'.option_list_string = self.option_list_string]_vars

\* "red" has been accepted against ["Red", "Blue"] without case sensitivity.
C6_Witness ==
    /\ op = "validate_list_string"
    /\ self.is_required /\ ~self.is_case_sensitive
    /\ self.option_list_string = Some(<<Red, Blue>>)
    /\ self.string_value = red
    /\ IsNoError(out)

(***************************************************************************)
(* C7, as stated.  On a builder on which set_as_case_sensitive was never   *)
(* called, validate_list_string and validate_list_options on a required    *)
(* field reject a candidate that differs from every option only in letter  *)
(* case: {field}-invalid.                                                  *)
(***************************************************************************)
ListEvaluatorNames == {"validate_list_string", "validate_list_options"}

CaseOnlyMismatch(b) ==
    /\ b.is_required
    /\ b.option_list_string.some
    /\ Len(b.string_value) > 0
    /\ b.string_value \notin OptionSet(b)
    /\ Lower(b.string_value) \in {Lower(o) : o \in OptionSet(b)}

C7_DefaultCaseSensitive ==
    (op \in ListEvaluatorNames /\ CaseOnlyMismatch(self))
        => IsError(out, "invalid")

(***************************************************************************)
(* C7, amended.  On a builder on which set_as_case_sensitive was never     *)
(* called, option-list comparisons are case-insensitive: both evaluators   *)
(* on a required field accept a candidate that differs from some option    *)
(* only in letter case, and reject a non-empty candidate that is no option *)
(* in any letter case.                                                     *)
(***************************************************************************)
C7_DefaultCaseInsensitive ==
    (/\ op \in ListEvaluatorNames
     /\ self.is_required
     /\ self.option_list_string.some
     /\ Len(self.string_value) > 0)
    => IF Lower(self.string_value) \in {Lower(o) : o \in OptionSet(self)}
       THEN IsNoError(out)
       ELSE IsError(out, "invalid")

\* "red" has been evaluated against ["Red"] by validate_list_options on a
\* builder whose case sensitivity was never configured.
C7_Witness ==
    /\ op = "validate_list_options"
    /\ self.option_list_string = Some(<<Red>>)
    /\ self.string_value = red
    /\ CaseOnlyMismatch(self)
    /\ IsNoError(out)

(***************************************************************************)
(* C9.  validate_b64_bytes: (1) a required field with an empty candidate   *)
(* yields {field}-invalid; (2) otherwise, when len is set and the candidate*)
(* decodes as URL-safe base64, a decoded length other than len yields      *)
(* {field}-len and an equal one no-error: with len 16 the encoding of 16   *)
(* bytes passes and the encoding of 15 bytes fails; (3) in every other     *)
(* case (no len, or a candidate that does not decode) the outcome is       *)
(* no-error.                                                               *)
(***************************************************************************)
C9_B64Bytes ==
    op = "validate_b64_bytes" =>
    LET str == self.string_value
        decoded == base64_url_decode(str)
    IN  IF self.is_required /\ Len(str) = 0
        THEN out = Value(i18n_get(Key(self, "invalid")))
        ELSE IF self.len.some /\ decoded.ok
        THEN /\ Len(decoded.bytes) # self.len.v
                  => out = Value(i18n_new(Key(self, "len"), << <<"len", self.len.v>> >>))
             /\ Len(decoded.bytes) = self.len.v => IsNoError(out)
             /\ \A x \in {0, 255} :
                  self.len.v = 16 =>
                    /\ str = b64_encode(Repeat(x, 16)) => IsNoError(out)
                    /\ str = b64_encode(Repeat(x, 15)) => IsError(out, "len")
        ELSE IsNoError(out)

\* The encoding of 15 bytes has been refused with len 16, and it does decode
\* to what was encoded.
C9_Witness ==
    /\ op = "validate_b64_bytes"
    /\ self.len = Some(16)
    /\ self.string_value = b64_encode(Repeat(255, 15))
    /\ base64_url_decode(self.string_value) = [ok |-> TRUE, bytes |-> Repeat(255, 15)]
    /\ IsError(out, "len")

(***************************************************************************)
(* C10.  validate_list_sizes on a required field returns, for an empty     *)
(* sequence, exactly one {field}-empty entry; for a non-empty one, one     *)
(* {field}-invalid entry for each element with a scale outside             *)
(* {XXSM,XSM,SM,MD,LG,XLG,XXLG}, an orientation outside                    *)
(* {THUMBNAIL,LANDSCAPE,PORTRAIT}, width <= 0 or height <= 0 -- one per    *)
(* element however many of its fields are bad, in element order -- and     *)
(* no-error when no element violates.  On an optional field it returns     *)
(* no-error.  An error never carries an empty collection.                  *)
(***************************************************************************)
ViolatingSize(size) ==
    \/ size.scale \notin {"XXSM", "XSM", "SM", "MD", "LG", "XLG", "XXLG"}
    \/ size.orientation \notin {"THUMBNAIL", "LANDSCAPE", "PORTRAIT"}
    \/ size.width <= 0
    \/ size.height <= 0

C10_ListSizes ==
    op = "validate_list_sizes" =>
    LET list == self.list_sizes_value
        violating == SelectSeq(list, ViolatingSize)
    IN  /\ ~self.is_required => IsNoError(out)
        /\ (self.is_required /\ list = <<>>)
              => out = Value(<<i18n_get(Key(self, "empty"))>>)
        /\ (self.is_required /\ list # <<>> /\ violating = <<>>) => IsNoError(out)
        /\ (self.is_required /\ list # <<>> /\ violating # <<>>)
              => /\ out.kind = "value"
                 /\ Len(out.value) = Len(violating)
                 /\ \A i \in 1 .. Len(violating) :
                        /\ out.value[i].key = Key(self, "invalid")
                        /\ out.value[i].args =
                             << <<"entry", serde_json_to_string(violating[i])>> >>
        /\ out.kind = "value" => Len(out.value) > 0

\* A list of a size with every field bad and then a size with a zero width
\* has got one entry for each, in that order.
C10_Witness ==
    /\ op = "validate_list_sizes"
    /\ self.is_required
    /\ self.list_sizes_value =
         <<Size("NONE", "NONE", 0, 0), Size("MD", "PORTRAIT", 0, 1)>>
    /\ out.kind = "value"
    /\ Len(out.value) = 2
    /\ out.value[2].args =
         << <<"entry", serde_json_to_string(Size("MD", "PORTRAIT", 0, 1))>> >>

(***************************************************************************)
(* C11.  validate_name returns validate_string's outcome whenever that is  *)
(* an error; otherwise it returns {field}-invalid iff the candidate has a  *)
(* char that is not a letter, a space, a hyphen, the middle dot U+30FB of  *)
(* the pattern or an apostrophe, and no-error when every char is one of    *)
(* these.  "Mary-Jane O'Brien" passes and "John123" yields                 *)
(* {field}-invalid.                                                        *)
(***************************************************************************)
\* The letters among the chars evaluated: A-Z, a-z, U+00E9.
Letters == (65 .. 90) \cup (97 .. 122) \cup {233}

AllowedInName == Letters \cup {32, 45, 12539, 39}

C11_Name ==
    op = "validate_name" =>
    LET str == self.string_value
        asString == validate_string(self)
    IN  IF asString.kind = "value"
        THEN out = asString
        ELSE /\ (\E i \in 1 .. Len(str) : str[i] \notin AllowedInName)
                    <=> out = Value(i18n_get(Key(self, "invalid")))
             /\ (\A i \in 1 .. Len(str) : str[i] \in AllowedInName)
                    <=> IsNoError(out)
             /\ str = MaryJaneOBrien => IsNoError(out)
             /\ str = John123 => IsError(out, "invalid")

\* "John123" has passed the length checks and been refused as a name, and a
\* string too short for its minimum has got validate_string's error.
C11_Witness ==
    \/ /\ op = "validate_name"
       /\ self.string_value = John123
       /\ self.min.some /\ self.max.some
       /\ validate_string(self) = Undefined
       /\ IsError(out, "invalid")
    \/ /\ op = "validate_name"
       /\ Len(self.string_value) > 0
       /\ IsError(out, "min")

(***************************************************************************)
(* C12.  After any sequence of calls of set_min, set_max, set_len,         *)
(* set_fmin, set_fmax, set_as_case_sensitive, set_as_nullable and          *)
(* set_as_required on a fresh builder, each configured field holds the     *)
(* argument of the last call of its own setter, or its initial value       *)
(* (bounds and len unset, is_required and is_null false) when its setter   *)
(* was never called; a setter changes no other field and no value slot;    *)
(* and calls of two different setters give the same builder in either      *)
(* order.                                                                  *)
(***************************************************************************)
ConfigSetterField ==
    [set_min |-> "min", set_max |-> "max", set_len |-> "len",
     set_fmin |-> "fmin", set_fmax |-> "fmax",
     set_as_case_sensitive |-> "is_case_sensitive",
     set_as_nullable |-> "is_null", set_as_required |-> "is_required"]

ConfigSetters == DOMAIN ConfigSetterField

\* What a configured field holds after its setter was called with arg.
Stored(setter, arg) ==
    IF setter \in {"set_min", "set_max", "set_len", "set_fmin", "set_fmax"}
    THEN [some |-> TRUE, v |-> arg]
    ELSE arg

InitialValue(f) ==
    IF f \in {"min", "max", "len", "fmin", "fmax"} THEN [some |-> FALSE]
    ELSE IF f \in {"is_required", "is_null", "is_case_sensitive"} THEN FALSE
    ELSE new[f]

ConfigCalls ==
    {<<g, a>> : g \in {"set_min", "set_max", "set_len"}, a \in UsizeArgs}
      \cup {<<g, a>> : g \in {"set_fmin", "set_fmax"}, a \in FloatArgs}
      \cup {<<g, a>> : g \in {"set_as_case_sensitive", "set_as_nullable",
                               "set_as_required"}, a \in BOOLEAN}

\* The last call of setter g in the sequence cs, or 0.
LastCallOf(cs, g) ==
    LET at == {i \in 1 .. Len(cs) : cs[i][1] = g}
    IN  IF at = {} THEN 0 ELSE CHOOSE i \in at : \A j \in at : j <= i

C12_LastWriteWins ==
    /\ \A g \in ConfigSetters :
          LET k == LastCallOf(calls, g)
          IN  self[ConfigSetterField[g]] =
                IF k = 0 THEN InitialValue(ConfigSetterField[g])
                ELSE Stored(g, calls[k][2])
    /\ \A c \in ConfigCalls :
          /\ apply_call(self, c)[ConfigSetterField[c[1]]] = Stored(c[1], c[2])
          /\ \A f \in DOMAIN self :
                f # ConfigSetterField[c[1]] => apply_call(self, c)[f] = self[f]
    /\ \A c1, c2 \in ConfigCalls :
          c1[1] # c2[1] =>
            apply_call(apply_call(self, c1), c2) = apply_call(apply_call(self, c2), c1)

\* set_min was called twice with different arguments and set_max never:
\* min holds the later argument, max is still unset.
C12_Witness ==
    /\ Len(calls) = 2
    /\ calls[1] = <<"set_min", 1>>
    /\ calls[2] = <<"set_min", 2>>
    /\ self.min = [some |-> TRUE, v |-> 2]
    /\ self.max = [some |-> FALSE]

(***************************************************************************)
(* C13.  validate_string, validate_i32 and validate_i64 return             *)
(* {field}-min-max only when the configured minimum is greater than the    *)
(* configured maximum: with unsigned bounds min <= max the outcome is      *)
(* never {field}-min-max, whatever the candidate value.                    *)
(***************************************************************************)
ScalarEvaluators == {"validate_string", "validate_i32", "validate_i64"}

OrderedBounds == self.min.some /\ self.max.some /\ self.min.v <= self.max.v

OutcomeClass(o) ==
    IF IsNoError(o) THEN "none"
    ELSE IF IsError(o, "empty") THEN "empty"
    ELSE IF IsError(o, "invalid") THEN "invalid"
    ELSE "other"

ArgNames(o) == {o.value.args[i][1] : i \in 1 .. Len(o.value.args)}

C14_ListOptionsAgreesWithListString ==
    LET asString == IF op = "validate_list_string" THEN out ELSE validate_list_string(self)
        asOptions == IF op = "validate_list_options" THEN out ELSE validate_list_options(self)
    IN  op \in ListEvaluatorNames =>
          /\ OutcomeClass(asOptions) = OutcomeClass(asString)
          /\ OutcomeClass(asOptions) \in {"none", "empty", "invalid"}
          /\ OutcomeClass(asOptions) # "invalid" => asOptions = asString
          /\ OutcomeClass(asOptions) = "invalid" =>
                /\ ArgNames(asString) = {}
                /\ "options" \in ArgNames(asOptions)
                /\ "parent" \in ArgNames(asOptions) <=> self.parent_string # <<>>
                /\ ArgNames(asOptions) \subseteq {"options", "parent"}

\* validate_list_options refused a candidate under a parent: the message
\* carries the parent, and validate_list_string refuses the candidate too.
C14_Witness ==
    /\ op = "validate_list_options"
    /\ self.parent_string # <<>>
    /\ IsError(out, "invalid")
    /\ "parent" \in ArgNames(out)
    /\ IsError(validate_list_string(self), "invalid")

(***************************************************************************)
(* C15.  is_null never influences an evaluation: every evaluator returns   *)
(* the same outcome on two builders that differ only in is_null.  In       *)
(* particular a required field whose value is absent still gets            *)
(* {field}-empty from validate_i32, validate_i64, validate_f32 and         *)
(* validate_f64 after set_as_nullable(true).                               *)
(***************************************************************************)
\* The outcomes the evaluator `name` can return on builder b (one, except
\* for validate_email, whose outcome also hangs on the address check).
Outcomes(name, b) ==
    CASE name = "validate_i32" -> {validate_i32(b)}
      [] name = "validate_i64" -> {validate_i64(b)}
      [] name = "validate_f32" -> {validate_f32(b)}
      [] name = "validate_f64" -> {validate_f64(b)}
      [] name = "validate_string" -> {validate_string(b)}
      [] name = "validate_password_simple" -> {validate_password_simple(b)}
      [] name = "validate_name" -> {validate_name(b)}
      [] name = "validate_email" -> {validate_email(b, v) : v \in BOOLEAN}
      [] name = "validate_password_strict" -> {validate_password_strict(b)}
      [] name = "validate_list_string" -> {validate_list_string(b)}
      [] name = "validate_list_options" -> {validate_list_options(b)}
      [] name = "validate_b64_bytes" -> {validate_b64_bytes(b)}
      [] name = "validate_list_sizes" -> {validate_list_sizes(b)}

NullFlipped == [self EXCEPT !.is_null = ~self.is_null]

NumericValueAbsent ==
    \/ op = "validate_i32" /\ ~self.i32_value.some
    \/ op = "validate_i64" /\ ~self.i64_value.some
    \/ op = "validate_f32" /\ ~self.f32_value.some
    \/ op = "validate_f64" /\ ~self.f64_value.some

C15_NullFlagNeverRead ==
    op # "builder" =>
      /\ out \in Outcomes(op, NullFlipped)
      /\ Outcomes(op, NullFlipped) = Outcomes(op, self)
      /\ (self.is_null /\ self.is_required /\ NumericValueAbsent)
            => IsError(out, "empty")

\* A required nullable field without an i32 value was evaluated: empty.
C15_Witness ==
    /\ op = "validate_i32"
    /\ self.is_null
    /\ self.is_required
    /\ ~self.i32_value.some
    /\ IsError(out, "empty")

====
